---- MODULE Spec2Model ----
(***************************************************************************)
(* Model of the running-verdict serverless function: the verdict engine     *)
(* (verdictForAsthma), the air-quality resolver (findNearestAqi,            *)
(* pickNearest, usAqiFromConcentration, aqiCategory) and the handler that   *)
(* fetches, classifies and pushes the notification.                         *)
(*                                                                          *)
(* Numbers.  A JavaScript number is modelled as an integer counting grid    *)
(* steps of 1/Res: the reading 30.5 is Units(30) + 1 when Res = 2.          *)
(* Concentrations count steps of 1/(10*Res) ug/m3, one order finer than the *)
(* breakpoint tables, whose entries have one decimal.                       *)
(***************************************************************************)
EXTENDS Integers, Sequences, FiniteSets, TLC

\* Grid steps per unit: 2 gives halves (100.5), 3 gives thirds.
Res == 2
Units(n) == n * Res

(***************************************************************************)
(* JavaScript values that stand for "absent", and the primitives the code   *)
(* applies to them.                                                         *)
(***************************************************************************)
\* A value is a record: k its kind, n its magnitude when k = "num" (0 otherwise).
Num(n) == [k |-> "num", n |-> n]
Null == [k |-> "null", n |-> 0]
Undefined == [k |-> "undefined", n |-> 0]
NaN == [k |-> "NaN", n |-> 0]
Absent == {Null, Undefined, NaN}
Nums(S) == {Num(n) : n \in S}

\* Number.isFinite(v): true of finite numbers only, never coerces.
NumberIsFinite(v) == v.k = "num"

\* ToNumber as applied by the relational operators: null -> 0, undefined -> NaN.
ToNumber(v) == IF v.k = "num" THEN v ELSE IF v.k = "null" THEN Num(0) ELSE NaN

\* The mutant of GreaterEq: written as !(a < b), which is true of NaN.
GreaterEqNegatedLess(a, b) == ~ (ToNumber(a).k = "num" /\ ToNumber(a).n < b)

\* a >= b for a number b: false as soon as ToNumber(a) is NaN.
GreaterEq(a, b) == ToNumber(a).k = "num" /\ ToNumber(a).n >= b

\* v != null (loose inequality): false of null and undefined only.
NotNullish(v) == v.k \notin {"null", "undefined"}

(***************************************************************************)
(* Verdict engine.                                                          *)
(***************************************************************************)
IndoorOnly == [icon |-> "severe", text |-> "Indoor only"]
Caution == [icon |-> "moderate", text |-> "Caution"]
SafeToRun == [icon |-> "safe", text |-> "Safe to run"]
NoVerdict == [icon |-> "none", text |-> "none"]

\* The mutant of verdictForAsthma: the first row tests 151 instead of 101 and
\* the second row lost its temperature escalation.
verdictForAsthmaShifted(t, h, w, a) ==
  IF NumberIsFinite(a) /\ a.n >= Units(151) THEN IndoorOnly
  ELSE IF NumberIsFinite(a) /\ a.n >= Units(51) THEN Caution
  ELSE IF NumberIsFinite(t) /\ t.n >= Units(32) THEN IndoorOnly
  ELSE IF (NumberIsFinite(t) /\ t.n >= Units(28)) \/ (NumberIsFinite(h) /\ h.n >= Units(75))
       THEN Caution
  ELSE SafeToRun

\* The mutant of verdictForAsthma for the decision table: the fourth row
\* requires heat and humidity together.
verdictForAsthmaBothHeat(t, h, w, a) ==
  IF NumberIsFinite(a) /\ a.n >= Units(101) THEN IndoorOnly
  ELSE IF NumberIsFinite(a) /\ a.n >= Units(51)
       THEN (IF NumberIsFinite(t) /\ t.n >= Units(32) THEN IndoorOnly ELSE Caution)
  ELSE IF NumberIsFinite(t) /\ t.n >= Units(32) THEN IndoorOnly
  ELSE IF (NumberIsFinite(t) /\ t.n >= Units(28)) /\ (NumberIsFinite(h) /\ h.n >= Units(75))
       THEN Caution
  ELSE SafeToRun

\* The mutant of verdictForAsthma for the wind: a wind of 50 km/h or more
\* turns "Safe to run" into "Caution".
verdictForAsthmaWindy(t, h, w, a) ==
  IF NumberIsFinite(a) /\ a.n >= Units(101) THEN IndoorOnly
  ELSE IF NumberIsFinite(a) /\ a.n >= Units(51)
       THEN (IF NumberIsFinite(t) /\ t.n >= Units(32) THEN IndoorOnly ELSE Caution)
  ELSE IF NumberIsFinite(t) /\ t.n >= Units(32) THEN IndoorOnly
  ELSE IF (NumberIsFinite(t) /\ t.n >= Units(28)) \/ (NumberIsFinite(h) /\ h.n >= Units(75))
       THEN Caution
  ELSE IF NumberIsFinite(w) /\ w.n >= 5 * Units(50) THEN Caution
  ELSE SafeToRun

\* The Number.isFinite-guarded variant.
verdictForAsthma(t, h, w, a) ==
  IF NumberIsFinite(a) /\ a.n >= Units(101) THEN IndoorOnly
  ELSE IF NumberIsFinite(a) /\ a.n >= Units(51)
       THEN (IF NumberIsFinite(t) /\ t.n >= Units(32) THEN IndoorOnly ELSE Caution)
  ELSE IF NumberIsFinite(t) /\ t.n >= Units(32) THEN IndoorOnly
  ELSE IF (NumberIsFinite(t) /\ t.n >= Units(28)) \/ (NumberIsFinite(h) /\ h.n >= Units(75))
       THEN Caution
  ELSE SafeToRun

\* The unguarded variant: bare >= comparisons, which coerce their operand.
verdictForAsthmaUnguarded(t, h, w, a) ==
  IF GreaterEq(a, Units(101)) THEN IndoorOnly
  ELSE IF GreaterEq(a, Units(51))
       THEN (IF GreaterEq(t, Units(32)) THEN IndoorOnly ELSE Caution)
  ELSE IF GreaterEq(t, Units(32)) THEN IndoorOnly
  ELSE IF GreaterEq(t, Units(28)) \/ GreaterEq(h, Units(75)) THEN Caution
  ELSE SafeToRun


(***************************************************************************)
(* Air-quality resolver.                                                    *)
(*                                                                          *)
(* A timestamp is the tuple of its fields, <<day, hour>> for "...T06:00"    *)
(* and <<day, hour, 0>> for "...T06:00:00"; the target slot is the prefix   *)
(* <<day, 6>>.  A parsed body is a record: hourly says whether it has an    *)
(* hourly object, and each series says whether it is there (has) and what   *)
(* it holds (arr).  Indexes are JavaScript's, from 0.                       *)
(***************************************************************************)
\* Longest hourly series enumerated.
MaxLen == 3

SeqsUpTo(S, n) == UNION {[1..k -> S] : k \in 0..n}

MinOf(S) == CHOOSE x \in S : \A y \in S : x <= y
MaxOf(S) == CHOOSE x \in S : \A y \in S : x >= y

\* t.startsWith(p)
StartsWith(t, p) == Len(t) >= Len(p) /\ SubSeq(t, 1, Len(p)) = p

\* times.findIndex(t => t.startsWith(p)): the first match, or -1.
FindIndex(times, p) ==
  LET hits == {i \in 1..Len(times) : StartsWith(times[i], p)}
  IN IF hits = {} THEN -1 ELSE MinOf(hits) - 1

\* arr[i]: undefined outside the array.
At(arr, i) == IF i >= 0 /\ i < Len(arr) THEN arr[i + 1] ELSE Undefined

\* catArr?.[i]: "" stands for every falsy label (undefined, null, "").
LabelAt(arr, i) == IF i >= 0 /\ i < Len(arr) THEN arr[i + 1] ELSE ""

\* json?.hourly?.<f> || []
Series(json, f) == IF json.hourly /\ json[f].has THEN json[f].arr ELSE <<>>

aqiCategoryFromNumber(aqiVal) ==
  IF ~ NumberIsFinite(aqiVal) THEN "Unknown"
  ELSE IF aqiVal.n <= Units(50) THEN "Good"
  ELSE IF aqiVal.n <= Units(100) THEN "Moderate"
  ELSE IF aqiVal.n <= Units(150) THEN "Unhealthy for Sensitive Groups"
  ELSE IF aqiVal.n <= Units(200) THEN "Unhealthy"
  ELSE IF aqiVal.n <= Units(300) THEN "Very Unhealthy"
  ELSE "Hazardous"

\* The mutant of aqiCategory: the thresholds are strict (< instead of <=).
aqiCategoryStrict(catStr, aqiVal) ==
  IF catStr # "" THEN catStr
  ELSE IF ~ NumberIsFinite(aqiVal) THEN "Unknown"
  ELSE IF aqiVal.n < Units(50) THEN "Good"
  ELSE IF aqiVal.n < Units(100) THEN "Moderate"
  ELSE IF aqiVal.n < Units(150) THEN "Unhealthy for Sensitive Groups"
  ELSE IF aqiVal.n < Units(200) THEN "Unhealthy"
  ELSE IF aqiVal.n < Units(300) THEN "Very Unhealthy"
  ELSE "Hazardous"

\* The label when there is one, else the category of the number.
aqiCategory(catStr, aqiVal) ==
  IF catStr # "" THEN catStr
  ELSE IF ~ NumberIsFinite(aqiVal) THEN "Unknown"
  ELSE IF aqiVal.n <= Units(50) THEN "Good"
  ELSE IF aqiVal.n <= Units(100) THEN "Moderate"
  ELSE IF aqiVal.n <= Units(150) THEN "Unhealthy for Sensitive Groups"
  ELSE IF aqiVal.n <= Units(200) THEN "Unhealthy"
  ELSE IF aqiVal.n <= Units(300) THEN "Very Unhealthy"
  ELSE "Hazardous"

\* What a resolver hands back: threw says that it raised instead.
Resolved(a, c) == [threw |-> FALSE, aqi |-> a, category |-> c]
Raised == [threw |-> TRUE, aqi |-> Undefined, category |-> ""]
NotResolved == [threw |-> FALSE, aqi |-> Undefined, category |-> ""]

\* hasVal of findNearestAqi: i >= 0 && i < aqiArr.length && Number.isFinite(aqiArr[i])
hasVal(aqiArr, i) == i >= 0 /\ i < Len(aqiArr) /\ NumberIsFinite(At(aqiArr, i))

\* hasVal of the first findNearestAqi: ... && aqiArr[i] != null
hasValLoose(aqiArr, i) == i >= 0 /\ i < Len(aqiArr) /\ NotNullish(At(aqiArr, i))

\* for (let i = from; i >= 0; i--) if (hasVal(i)) return i;  -1: none found.
RECURSIVE ScanBack(_, _)
ScanBack(aqiArr, i) ==
  IF i < 0 THEN -1
  ELSE IF hasVal(aqiArr, i) THEN i
  ELSE ScanBack(aqiArr, i - 1)

\* for (let i = from; i < n; i++) if (hasVal(i)) return i;  -1: none found.
RECURSIVE ScanForward(_, _, _)
ScanForward(aqiArr, i, n) ==
  IF i >= n THEN -1
  ELSE IF hasVal(aqiArr, i) THEN i
  ELSE ScanForward(aqiArr, i + 1, n)

RECURSIVE ScanBackLoose(_, _)
ScanBackLoose(aqiArr, i) ==
  IF i < 0 THEN -1
  ELSE IF hasValLoose(aqiArr, i) THEN i
  ELSE ScanBackLoose(aqiArr, i - 1)

RECURSIVE ScanForwardLoose(_, _, _)
ScanForwardLoose(aqiArr, i, n) ==
  IF i >= n THEN -1
  ELSE IF hasValLoose(aqiArr, i) THEN i
  ELSE ScanForwardLoose(aqiArr, i + 1, n)

\* Math.max(exactIdx + 1, 0)
ForwardStart(exactIdx) == IF exactIdx + 1 > 0 THEN exactIdx + 1 ELSE 0

\* The index findNearestAqi settles on: exact, else backward, else forward
\* up to times.length; -1 when nothing is found.
NearestIndex(aqiArr, exactIdx, n) ==
  IF hasVal(aqiArr, exactIdx) THEN exactIdx
  ELSE IF ScanBack(aqiArr, exactIdx - 1) >= 0 THEN ScanBack(aqiArr, exactIdx - 1)
  ELSE ScanForward(aqiArr, ForwardStart(exactIdx), n)

NearestIndexLoose(aqiArr, exactIdx, n) ==
  IF hasValLoose(aqiArr, exactIdx) THEN exactIdx
  ELSE IF ScanBackLoose(aqiArr, exactIdx - 1) >= 0 THEN ScanBackLoose(aqiArr, exactIdx - 1)
  ELSE ScanForwardLoose(aqiArr, ForwardStart(exactIdx), n)

\* The mutant of findNearestAqi: the forward scan runs before the backward one.
findNearestAqiForwardFirst(json, target) ==
  LET times == Series(json, "time")
      aqiArr == Series(json, "us_aqi")
      exactIdx == FindIndex(times, target)
      fwd == ScanForward(aqiArr, ForwardStart(exactIdx), Len(times))
      back == ScanBack(aqiArr, exactIdx - 1)
      i == IF hasVal(aqiArr, exactIdx) THEN exactIdx
           ELSE IF fwd >= 0 THEN fwd ELSE back
  IN IF i >= 0 THEN Resolved(At(aqiArr, i), aqiCategoryFromNumber(At(aqiArr, i)))
     ELSE Resolved(Null, "Unknown")

\* findNearestAqi of the deployed function: finite values, category from the number.
findNearestAqi(json, target) ==
  LET times == Series(json, "time")
      aqiArr == Series(json, "us_aqi")
      exactIdx == FindIndex(times, target)
      i == NearestIndex(aqiArr, exactIdx, Len(times))
  IN IF i >= 0 THEN Resolved(At(aqiArr, i), aqiCategoryFromNumber(At(aqiArr, i)))
     ELSE Resolved(Null, "Unknown")

\* findNearestAqi with the health-concern labels: finite values, label or number.
findNearestAqiCat(json, target) ==
  LET times == Series(json, "time")
      aqiArr == Series(json, "us_aqi")
      catArr == Series(json, "epa_health_concern")
      exactIdx == FindIndex(times, target)
      i == NearestIndex(aqiArr, exactIdx, Len(times))
  IN IF i >= 0 THEN Resolved(At(aqiArr, i), aqiCategory(LabelAt(catArr, i), At(aqiArr, i)))
     ELSE Resolved(Null, "Unknown")

\* The first findNearestAqi: values that are != null, label or number.
findNearestAqiLoose(json, target) ==
  LET times == Series(json, "time")
      aqiArr == Series(json, "us_aqi")
      catArr == Series(json, "epa_health_concern")
      exactIdx == FindIndex(times, target)
      i == NearestIndexLoose(aqiArr, exactIdx, Len(times))
  IN IF i >= 0 THEN Resolved(At(aqiArr, i), aqiCategory(LabelAt(catArr, i), At(aqiArr, i)))
     ELSE Resolved(Null, "Unknown")

\* pickNearest(arr) of the handler that computes the AQI from PM: the scan
\* forward runs to arr.length.
pickNearest(arr, jExact) ==
  LET k == NearestIndex(arr, jExact, Len(arr))
  IN IF k >= 0 THEN At(arr, k) ELSE Null

\* The lookup of the first handler: no fallback; indexing a series that is
\* not there raises a TypeError.
inlineAqi(json, target) ==
  LET aqTime == Series(json, "time")
      aqIdx == FindIndex(aqTime, target)
  IN IF aqIdx < 0 THEN Resolved(Null, "")
     ELSE IF ~ json.us_aqi.has \/ ~ json.pm2_5.has \/ ~ json.pm10.has THEN Raised
     ELSE Resolved(At(json.us_aqi.arr, aqIdx), "")

(***************************************************************************)
(* US AQI from a PM concentration.  The breakpoint tables are written in    *)
(* tenths of a ug/m3, <<C_low, C_high, I_low, I_high>>, as the source has   *)
(* them with one decimal; a concentration counts steps of 1/(10*Res).       *)
(***************************************************************************)
PM25 ==
  << <<0, 120, 0, 50>>, <<121, 354, 51, 100>>, <<355, 554, 101, 150>>,
     <<555, 1504, 151, 200>>, <<1505, 2504, 201, 300>>, <<2505, 3504, 301, 400>>,
     <<3505, 5004, 401, 500>> >>

PM10 ==
  << <<0, 540, 0, 50>>, <<550, 1540, 51, 100>>, <<1550, 2540, 101, 150>>,
     <<2550, 3540, 151, 200>>, <<3550, 4240, 201, 300>>, <<4250, 5040, 301, 400>>,
     <<5050, 6040, 401, 500>> >>

\* Math.round(num / den) for den > 0: the nearest integer, halves upward.
MathRound(num, den) == (2 * num + den) \div (2 * den)

\* Math.floor(num / den) for den > 0.
MathFloor(num, den) == num \div den

\* The first row of the table whose range holds conc; 0: none.
RowOf(table, c) ==
  LET hits == {r \in 1..Len(table) : c >= table[r][1] * Res /\ c <= table[r][2] * Res}
  IN IF hits = {} THEN 0 ELSE MinOf(hits)

\* The mutant of usAqiFromConcentration: the interpolation is truncated
\* (Math.floor) instead of rounded.
usAqiFromConcentrationFloor(conc, pollutant) ==
  IF ~ NumberIsFinite(conc) THEN Null
  ELSE LET table == IF pollutant = "pm10" THEN PM10 ELSE PM25
           r == RowOf(table, conc.n)
       IN IF r = 0 THEN Num(Units(500))
          ELSE LET Cl == table[r][1] * Res
                   Ch == table[r][2] * Res
                   Il == table[r][3]
                   Ih == table[r][4]
               IN Num(Units(MathFloor((Ih - Il) * (conc.n - Cl) + Il * (Ch - Cl), Ch - Cl)))

\* I = ((Ih - Il) / (Ch - Cl)) * (conc - Cl) + Il, rounded; 500 beyond the table.
usAqiFromConcentration(conc, pollutant) ==
  IF ~ NumberIsFinite(conc) THEN Null
  ELSE LET table == IF pollutant = "pm10" THEN PM10 ELSE PM25
           r == RowOf(table, conc.n)
       IN IF r = 0 THEN Num(Units(500))
          ELSE LET Cl == table[r][1] * Res
                   Ch == table[r][2] * Res
                   Il == table[r][3]
                   Ih == table[r][4]
               IN Num(Units(MathRound((Ih - Il) * (conc.n - Cl) + Il * (Ch - Cl), Ch - Cl)))

VARIABLES
  variant,    \* which of the repository's variants of the code runs
  pc,         \* where the run stands
  tempC, rh, windKmh, aqi,   \* the resolved reading
  verdict,    \* what verdictForAsthma returned
  aqJson,     \* the parsed air-quality body
  targetISO,  \* the target slot's timestamp prefix
  found,      \* what the air-quality resolver returned
  calc,       \* the calls of usAqiFromConcentration
  topic,      \* process.env.NTFY_TOPIC is set
  net,        \* the state of each external call: weather, air, push
  calls,      \* how many times each external call was issued
  body,       \* the state of each response's json(): weather, air
  wJson,      \* the parsed weather body
  sent,       \* the lines handed to the notification sender
  responses   \* the results the handler returned

vars ==
  <<variant, pc, tempC, rh, windKmh, aqi, verdict, aqJson, targetISO, found, calc,
    topic, net, calls, body, wJson, sent, responses>>

io == <<topic, net, calls, body, wJson, sent, responses>>

reading == <<tempC, rh, windKmh, aqi, verdict>>
airInput == <<aqJson, targetISO>>

\* A body with no hourly object (an error body, or null).
Missing == [has |-> FALSE, arr |-> <<>>]
Here(a) == [has |-> TRUE, arr |-> a]
NoHourly ==
  [hourly |-> FALSE, time |-> Missing, us_aqi |-> Missing,
   epa_health_concern |-> Missing, pm2_5 |-> Missing, pm10 |-> Missing]
NoTarget == <<>>
\* Two calls of usAqiFromConcentration: the concentrations c1 <= c2 of one
\* pollutant and the indexes i1, i2 returned for them.
NoCalc == [pollutant |-> "", c1 |-> Null, c2 |-> Null, i1 |-> Undefined, i2 |-> Undefined]

\* The weather body, like the air-quality one.
NoHourlyWeather ==
  [hourly |-> FALSE, time |-> Missing, temperature_2m |-> Missing,
   relative_humidity_2m |-> Missing, wind_speed_10m |-> Missing]

Calls == {"weather", "air", "push"}
Bodies == {"weather", "air"}

\* No handler runs: nothing was fetched, pushed or returned.
NoHandler ==
  /\ topic = FALSE
  /\ net = [c \in Calls |-> "idle"]
  /\ calls = [c \in Calls |-> 0]
  /\ body = [b \in Bodies |-> "idle"]
  /\ wJson = NoHourlyWeather
  /\ sent = <<>>
  /\ responses = <<>>

(***************************************************************************)
(* Readings of the verdict engine: every grid point within one unit of a    *)
(* threshold, the readings of the documented scenarios, and the absent      *)
(* values.                                                                  *)
(***************************************************************************)
Around(n) == Units(n - 1) .. Units(n + 1)

TempVals == Nums(Around(28) \cup Around(32) \cup {Units(-5), Units(20), Units(30)}) \cup Absent
HumVals == Nums(Around(75) \cup {Units(40), Units(50)}) \cup Absent
\* Wind speeds in km/h count steps of 1/(5*Res).
Kmh(n) == n * 5 * Res
WindVals == Nums({0, Kmh(5), Kmh(10), Kmh(50)}) \cup Absent
AqiVals == Nums(Around(51) \cup Around(101) \cup {0, Units(40), Units(120)}) \cup Absent

VerdictVariants == {"guarded", "unguarded"}

Classify(v, t, h, w, a) ==
  IF v = "guarded" THEN verdictForAsthma(t, h, w, a)
  ELSE verdictForAsthmaUnguarded(t, h, w, a)

InitVerdict ==
  /\ variant \in VerdictVariants
  /\ pc = "ready"
  /\ tempC \in TempVals
  /\ rh \in HumVals
  /\ windKmh \in WindVals
  /\ aqi \in AqiVals
  /\ verdict = NoVerdict
  /\ aqJson = NoHourly
  /\ targetISO = NoTarget
  /\ found = NotResolved
  /\ calc = NoCalc
  /\ NoHandler

ClassifyGuarded ==
  /\ pc = "ready"
  /\ variant = "guarded"
  /\ verdict' = verdictForAsthma(tempC, rh, windKmh, aqi)
  /\ pc' = "classified"
  /\ UNCHANGED <<variant, tempC, rh, windKmh, aqi, aqJson, targetISO, found, calc, io>>

ClassifyUnguarded ==
  /\ pc = "ready"
  /\ variant = "unguarded"
  /\ verdict' = verdictForAsthmaUnguarded(tempC, rh, windKmh, aqi)
  /\ pc' = "classified"
  /\ UNCHANGED <<variant, tempC, rh, windKmh, aqi, aqJson, targetISO, found, calc, io>>

NextVerdict == ClassifyGuarded \/ ClassifyUnguarded

SpecVerdict == InitVerdict /\ [][NextVerdict]_vars

(***************************************************************************)
(* The resolver applied to air-quality bodies: every hourly series of up    *)
(* to MaxLen samples over a matching and a non-matching timestamp, with     *)
(* missing, empty, short and long series; and one-sample series over every  *)
(* grid point around the category thresholds.                               *)
(***************************************************************************)
Today == 1
TargetSlot == <<Today, 6>>

TimeStamps == {<<Today, 6>>, <<Today, 5>>}
LoneStamps == {<<Today, 6>>, <<Today, 6, 0>>, <<Today + 1, 6>>}
SeriesVals == {Null} \cup Nums({Units(40), Units(120)})
CategoryVals ==
  {Null} \cup Nums(Around(50) \cup Around(100) \cup Around(150) \cup Around(200)
                   \cup Around(300) \cup {0, Units(500)})
Labels == {"", "Unhealthy"}

TimeFields == {Missing} \cup {Here(a) : a \in SeqsUpTo(TimeStamps, MaxLen)}
ValFields == {Missing} \cup {Here(a) : a \in SeqsUpTo(SeriesVals, MaxLen)}
LabelFields(n) == {Missing} \cup {Here(a) : a \in [1..n -> Labels]}
BareFields == {Missing, Here(<<>>)}

ResolverVariants ==
  {"findNearestAqi", "findNearestAqiCat", "findNearestAqiLoose", "pickNearest", "inline"}

Labelled(v) == v \in {"findNearestAqiCat", "findNearestAqiLoose"}

\* The bodies a variant's request can be answered with: each variant asks
\* for its own series (the deployed function asks for no labels).
SeriesBodies(v) ==
  {[hourly |-> TRUE, time |-> t, us_aqi |-> a, epa_health_concern |-> c,
    pm2_5 |-> p, pm10 |-> q] :
     t \in TimeFields,
     a \in IF v = "pickNearest" THEN {Missing} ELSE ValFields,
     c \in IF Labelled(v) THEN UNION {LabelFields(n) : n \in 0..MaxLen} ELSE {Missing},
     p \in IF v = "pickNearest" THEN ValFields
           ELSE IF v = "inline" THEN BareFields ELSE {Missing},
     q \in IF v = "inline" THEN BareFields ELSE {Missing}}

LoneBodies(v) ==
  {[hourly |-> TRUE, time |-> Here(<<t>>), us_aqi |-> Here(<<a>>),
    epa_health_concern |-> c, pm2_5 |-> Missing, pm10 |-> Missing] :
     t \in LoneStamps, a \in CategoryVals,
     c \in IF Labelled(v) THEN LabelFields(1) ELSE {Missing}}

\* Labels come with the values they label: a label series is as long as the
\* AQI series it accompanies.
AirBodies(v) ==
  {NoHourly}
    \cup {b \in SeriesBodies(v) :
            b.epa_health_concern.has => Len(b.epa_health_concern.arr) = Len(b.us_aqi.arr)}
    \cup (IF v \in {"pickNearest", "inline"} THEN {} ELSE LoneBodies(v))

InitResolver ==
  /\ variant \in ResolverVariants
  /\ pc = "ready"
  /\ aqJson \in AirBodies(variant)
  /\ targetISO = TargetSlot
  /\ found = NotResolved
  /\ calc = NoCalc
  /\ NoHandler
  /\ tempC = Null
  /\ rh = Null
  /\ windKmh = Null
  /\ aqi = Null
  /\ verdict = NoVerdict

Resolve(v, result) ==
  /\ pc = "ready"
  /\ variant = v
  /\ found' = result
  /\ pc' = "resolved"
  /\ UNCHANGED <<variant, reading, airInput, calc, io>>

ResolveFindNearestAqi == Resolve("findNearestAqi", findNearestAqi(aqJson, targetISO))

ResolveFindNearestAqiCat == Resolve("findNearestAqiCat", findNearestAqiCat(aqJson, targetISO))

ResolveFindNearestAqiLoose ==
  Resolve("findNearestAqiLoose", findNearestAqiLoose(aqJson, targetISO))

ResolvePickNearest ==
  Resolve("pickNearest",
          Resolved(pickNearest(Series(aqJson, "pm2_5"),
                               FindIndex(Series(aqJson, "time"), targetISO)), ""))

ResolveInline == Resolve("inline", inlineAqi(aqJson, targetISO))

NextResolver ==
  \/ ResolveFindNearestAqi
  \/ ResolveFindNearestAqiCat
  \/ ResolveFindNearestAqiLoose
  \/ ResolvePickNearest
  \/ ResolveInline

SpecResolver == InitResolver /\ [][NextResolver]_vars

(***************************************************************************)
(* usAqiFromConcentration applied to every concentration of the grid from   *)
(* 0 to beyond the top breakpoint, in pairs c1 <= c2 at most MaxGap grid    *)
(* steps apart, and to the absent values.                                   *)
(***************************************************************************)
\* Largest number of grid steps between the two concentrations of a pair.
MaxGap == 2
\* Tenths of a ug/m3 enumerated beyond the top breakpoint.
Beyond == 6

TopOf(pollutant) == IF pollutant = "pm10" THEN PM10[Len(PM10)][2] ELSE PM25[Len(PM25)][2]
Concentrations(pollutant) == 0 .. ((TopOf(pollutant) + Beyond) * Res)

InitCalc ==
  /\ variant = "usAqiFromConcentration"
  /\ pc = "ready"
  /\ \E q \in {"pm25", "pm10"} :
       \/ \E x \in Concentrations(q), g \in 0..MaxGap :
            calc = [pollutant |-> q, c1 |-> Num(x), c2 |-> Num(x + g),
                    i1 |-> Undefined, i2 |-> Undefined]
       \/ \E x \in Absent :
            calc = [pollutant |-> q, c1 |-> x, c2 |-> x, i1 |-> Undefined, i2 |-> Undefined]
  /\ aqJson = NoHourly
  /\ targetISO = NoTarget
  /\ found = NotResolved
  /\ NoHandler
  /\ tempC = Null
  /\ rh = Null
  /\ windKmh = Null
  /\ aqi = Null
  /\ verdict = NoVerdict

ComputeAqi ==
  /\ pc = "ready"
  /\ variant = "usAqiFromConcentration"
  /\ calc' = [calc EXCEPT !.i1 = usAqiFromConcentration(calc.c1, calc.pollutant),
                          !.i2 = usAqiFromConcentration(calc.c2, calc.pollutant)]
  /\ pc' = "computed"
  /\ UNCHANGED <<variant, reading, airInput, found, io>>

NextCalc == ComputeAqi

SpecCalc == InitCalc /\ [][NextCalc]_vars

(***************************************************************************)
(* The handler.  Five variants of it are in the repository:                 *)
(*   deployed  checks the topic first and both responses' ok,               *)
(*             findNearestAqi, guarded verdict;                             *)
(*   labelled  as deployed, with the health-concern labels;                 *)
(*   fromPm    as deployed, with the AQI computed from PM2.5 / PM10;        *)
(*   first     no ok check, the inline AQI lookup, unguarded verdict,       *)
(*             the topic read just before the push;                         *)
(*   nearest   as first, with the first findNearestAqi.                     *)
(* Wind speeds in km/h count steps of 1/(5*Res), so that m/s * 3.6 is       *)
(* exact: 18 steps of km/h for each step of m/s.                            *)
(***************************************************************************)
HandlerVariants == {"deployed", "labelled", "fromPm", "first", "nearest"}

\* The variants that throw on a response that is not ok, and that read the
\* topic before fetching.
ChecksOk(v) == v \in {"deployed", "labelled", "fromPm"}
TopicFirst(v) == v \in {"deployed", "labelled", "fromPm"}
Guarded(v) == v \in {"deployed", "labelled", "fromPm"}

Success == [status |-> 200, ok |-> TRUE]
Failure == [status |-> 500, ok |-> FALSE]

\* windMs * 3.6, from steps of 1/Res m/s to steps of 1/(5*Res) km/h.
TimesThreePointSix(v) == IF v.k = "num" THEN Num(v.n * 18) ELSE NaN

\* n.toFixed(0) of a number of num/den: the nearest integer, halves away
\* from zero, with its sign ("-0" keeps it).
ToFixed0(num, den) ==
  [neg |-> num < 0,
   digits |-> (2 * (IF num < 0 THEN -num ELSE num) + den) \div (2 * den)]

\* fmt(n, 0): "NA" unless Number.isFinite(n).
fmt(v, den) ==
  IF NumberIsFinite(v) THEN [na |-> FALSE, fixed |-> ToFixed0(v.n, den)]
  ELSE [na |-> TRUE, fixed |-> ToFixed0(0, den)]

\* The weather values at the target hour; indexing a series that is not
\* there raises a TypeError.
readWeather(v, json, target) ==
  LET times == Series(json, "time")
      i == FindIndex(times, target)
      windMs == At(json.wind_speed_10m.arr, i)
  IN IF i < 0
       THEN [threw |-> FALSE, tempC |-> Null, rh |-> Null, windKmh |-> Null]
     ELSE IF \/ ~ json.temperature_2m.has
             \/ ~ json.relative_humidity_2m.has
             \/ ~ json.wind_speed_10m.has
       THEN [threw |-> TRUE, tempC |-> Null, rh |-> Null, windKmh |-> Null]
     ELSE [threw |-> FALSE,
           tempC |-> At(json.temperature_2m.arr, i),
           rh |-> At(json.relative_humidity_2m.arr, i),
           windKmh |-> IF Guarded(v)
                         THEN (IF NumberIsFinite(windMs)
                                 THEN TimesThreePointSix(windMs) ELSE Null)
                         ELSE (IF NotNullish(windMs)
                                 THEN TimesThreePointSix(windMs) ELSE Null)]

\* The AQI from PM: pickNearest of both series, PM2.5 preferred.
aqiFromPm(json, target) ==
  LET jExact == FindIndex(Series(json, "time"), target)
      pm25 == pickNearest(Series(json, "pm2_5"), jExact)
      pm10 == pickNearest(Series(json, "pm10"), jExact)
      aqiFromPm25 == usAqiFromConcentration(pm25, "pm25")
      aqiFromPm10 == usAqiFromConcentration(pm10, "pm10")
      a == IF NumberIsFinite(aqiFromPm25) THEN aqiFromPm25 ELSE aqiFromPm10
  IN Resolved(a, aqiCategoryFromNumber(a))

\* The air-quality resolver of each variant.
resolveAir(v, json, target) ==
  CASE v = "deployed" -> findNearestAqi(json, target)
    [] v = "labelled" -> findNearestAqiCat(json, target)
    [] v = "fromPm" -> aqiFromPm(json, target)
    [] v = "first" -> inlineAqi(json, target)
    [] v = "nearest" -> findNearestAqiLoose(json, target)

classify(v, t, h, w, a) ==
  IF Guarded(v) THEN verdictForAsthma(t, h, w, a)
  ELSE verdictForAsthmaUnguarded(t, h, w, a)

\* The message line: the verdict and the formatted reading.  The variants
\* with ok checks print the category beside a finite AQI.
lineOf(v, vd, t, h, w, a, cat) ==
  [icon |-> vd.icon, text |-> vd.text,
   temp |-> fmt(t, Res), rh |-> fmt(h, Res), wind |-> fmt(w, 5 * Res),
   aqi |-> fmt(a, Res),
   category |-> IF Guarded(v) /\ NumberIsFinite(a) THEN cat ELSE ""]

\* The mutant of afterFetch: a response that is not ok is read like any other.
afterFetchUnchecked(v, w, a) ==
  IF w = "rejected" \/ a = "rejected" THEN "throw" ELSE "json"

\* const [wRes, aqRes] = await Promise.all([...]); the ok checks where the
\* variant has them.  "throw": the catch block runs; "json": both bodies are read.
afterFetch(v, w, a) ==
  IF w = "rejected" \/ a = "rejected" THEN "throw"
  ELSE IF ChecksOk(v) /\ (w = "notOk" \/ a = "notOk") THEN "throw"
  ELSE "json"

\* The mutant of afterPush: the acknowledgement is not looked at.
afterPushSwallowed(ack) == IF ack = "rejected" THEN Failure ELSE Success

\* if (!push.ok) throw ...; return res.status(200)...; the catch returns 500.
afterPush(ack) == IF ack = "ok" THEN Success ELSE Failure

\* Sample bodies.  T5, T6: today's 05:00 and 06:00 stamps.
T5 == <<Today, 5>>
T6 == <<Today, 6>>

Weather(times, temps, hums, winds) ==
  [hourly |-> TRUE, time |-> times, temperature_2m |-> temps,
   relative_humidity_2m |-> hums, wind_speed_10m |-> winds]

WeatherSamples ==
  {NoHourlyWeather,
   Weather(Here(<<T5, T6>>), Here(<<Num(Units(18)), Num(Units(20))>>),
           Here(<<Num(Units(45)), Num(Units(40))>>), Here(<<Num(Units(1)), Num(Units(3))>>)),
   Weather(Here(<<T5, T6>>), Here(<<Num(Units(29)), Num(Units(33))>>),
           Here(<<Num(Units(80)), Null>>), Here(<<Null, Null>>)),
   Weather(Here(<<T5>>), Here(<<Num(Units(33))>>), Here(<<Num(Units(80))>>),
           Here(<<Num(Units(3))>>)),
   Weather(Here(<<T6>>), Missing, Here(<<Num(Units(50))>>), Here(<<Num(Units(3))>>))}

Air(times, aqis, labels, pm25s, pm10s) ==
  [hourly |-> TRUE, time |-> times, us_aqi |-> aqis, epa_health_concern |-> labels,
   pm2_5 |-> pm25s, pm10 |-> pm10s]

\* Each variant is answered with the series it asked for.
AirSamples(v) ==
  {NoHourly,
   Air(Here(<<T5, T6>>),
       IF v = "fromPm" THEN Missing ELSE Here(<<Num(Units(60)), Num(Units(120))>>),
       IF v \in {"labelled", "first", "nearest"} THEN Here(<<"Moderate", "">>) ELSE Missing,
       IF v = "deployed" \/ v = "labelled" THEN Missing
         ELSE Here(<<Num(100 * Res), Num(400 * Res)>>),
       IF v = "deployed" \/ v = "labelled" THEN Missing
         ELSE Here(<<Num(300 * Res), Num(600 * Res)>>)),
   Air(Here(<<T5, T6>>),
       IF v = "fromPm" THEN Missing ELSE Here(<<Num(Units(40)), Null>>),
       Missing,
       IF v = "deployed" \/ v = "labelled" THEN Missing ELSE Here(<<Null, Null>>),
       IF v = "deployed" \/ v = "labelled" THEN Missing ELSE Here(<<Num(300 * Res), Null>>)),
   Air(Here(<<T6>>), Missing, Missing, Missing, Missing)}

InitHandler ==
  /\ variant \in HandlerVariants
  /\ pc = "start"
  /\ topic \in BOOLEAN
  /\ net = [c \in Calls |-> "idle"]
  /\ calls = [c \in Calls |-> 0]
  /\ body = [b \in Bodies |-> "idle"]
  /\ wJson = NoHourlyWeather
  /\ aqJson = NoHourly
  /\ targetISO = TargetSlot
  /\ found = NotResolved
  /\ calc = NoCalc
  /\ tempC = Null
  /\ rh = Null
  /\ windKmh = Null
  /\ aqi = Null
  /\ verdict = NoVerdict
  /\ sent = <<>>
  /\ responses = <<>>

\* catch (e) { ...; return res.status(500).json({ ok: false, ... }) }
Catch ==
  /\ responses' = Append(responses, Failure)
  /\ pc' = "done"

\* The handler starts: the topic check where it comes first, then both
\* fetches are issued at once.
Start ==
  /\ pc = "start"
  /\ IF TopicFirst(variant) /\ ~ topic
       THEN /\ Catch
            /\ UNCHANGED <<net, calls>>
       ELSE /\ net' = [net EXCEPT !.weather = "pending", !.air = "pending"]
            /\ calls' = [calls EXCEPT !.weather = @ + 1, !.air = @ + 1]
            /\ pc' = "awaitFetch"
            /\ UNCHANGED responses
  /\ UNCHANGED <<variant, reading, airInput, found, calc, topic, body, wJson, sent>>

\* A pending call settles: a success response, a non-success response, or
\* a rejection (the network failed).
Settles(c) ==
  /\ net[c] = "pending"
  /\ \E outcome \in {"ok", "notOk", "rejected"} : net' = [net EXCEPT ![c] = outcome]
  /\ UNCHANGED <<variant, pc, reading, airInput, found, calc, topic, calls, body, wJson,
                 sent, responses>>

WeatherSettles == Settles("weather")
AirSettles == Settles("air")
PushSettles == Settles("push")

\* The mutant of promiseAllSettled: a rejection is not noticed, the await
\* waits for both promises to be fulfilled.
promiseAllFulfilled(x, y) ==
  x \notin {"idle", "pending", "rejected"} /\ y \notin {"idle", "pending", "rejected"}

\* await Promise.all([p, q]) resumes when both promises are fulfilled, or as
\* soon as one is rejected, whatever the other one does.
promiseAllSettled(x, y) ==
  \/ x = "rejected"
  \/ y = "rejected"
  \/ (x \notin {"idle", "pending"} /\ y \notin {"idle", "pending"})

\* Promise.all of the two fetches: resumes when both are fulfilled or as
\* soon as one is rejected.
ResumeAfterFetch ==
  /\ pc = "awaitFetch"
  /\ promiseAllSettled(net.weather, net.air)
  /\ IF afterFetch(variant, net.weather, net.air) = "throw"
       THEN /\ Catch
            /\ UNCHANGED body
       ELSE /\ body' = [b \in Bodies |-> "pending"]
            /\ pc' = "awaitJson"
            /\ UNCHANGED responses
  /\ UNCHANGED <<variant, reading, airInput, found, calc, topic, net, calls, wJson, sent>>

\* wRes.json() settles: a parsed body, or a rejection (not JSON).
WeatherBodySettles ==
  /\ body.weather = "pending"
  /\ \/ /\ body' = [body EXCEPT !.weather = "rejected"]
        /\ UNCHANGED wJson
     \/ /\ body' = [body EXCEPT !.weather = "parsed"]
        /\ wJson' \in WeatherSamples
  /\ UNCHANGED <<variant, pc, reading, airInput, found, calc, topic, net, calls, sent,
                 responses>>

\* aqRes.json() settles.
AirBodySettles ==
  /\ body.air = "pending"
  /\ \/ /\ body' = [body EXCEPT !.air = "rejected"]
        /\ UNCHANGED aqJson
     \/ /\ body' = [body EXCEPT !.air = "parsed"]
        /\ aqJson' \in AirSamples(variant)
  /\ UNCHANGED <<variant, pc, reading, targetISO, found, calc, topic, net, calls, wJson,
                 sent, responses>>

\* Promise.all of the two json(): on both parsed, the reading is resolved,
\* classified and formatted, the topic is checked where it comes last, and
\* the line is pushed.
ResumeAfterJson ==
  /\ pc = "awaitJson"
  /\ promiseAllSettled(body.weather, body.air)
  /\ \E w \in {readWeather(variant, wJson, targetISO)},
        a \in {resolveAir(variant, aqJson, targetISO)} :
     \E vd \in {classify(variant, w.tempC, w.rh, w.windKmh, a.aqi)} :
        IF body.weather = "rejected" \/ body.air = "rejected" \/ w.threw
          THEN /\ Catch
               /\ UNCHANGED <<reading, found, net, calls, sent>>
        ELSE IF a.threw
          THEN /\ Catch
               /\ tempC' = w.tempC
               /\ rh' = w.rh
               /\ windKmh' = w.windKmh
               /\ found' = a
               /\ UNCHANGED <<aqi, verdict, net, calls, sent>>
        ELSE /\ tempC' = w.tempC
             /\ rh' = w.rh
             /\ windKmh' = w.windKmh
             /\ found' = a
             /\ aqi' = a.aqi
             /\ verdict' = vd
             /\ IF ~ topic
                  THEN /\ Catch
                       /\ UNCHANGED <<net, calls, sent>>
                  ELSE /\ net' = [net EXCEPT !.push = "pending"]
                       /\ calls' = [calls EXCEPT !.push = @ + 1]
                       /\ sent' = Append(sent, lineOf(variant, vd, w.tempC, w.rh,
                                                      w.windKmh, a.aqi, a.category))
                       /\ pc' = "awaitPush"
                       /\ UNCHANGED responses
  /\ UNCHANGED <<variant, airInput, calc, topic, body, wJson>>

\* await fetch(ntfyUrl, ...) settles: the acknowledgement decides the result.
ResumeAfterPush ==
  /\ pc = "awaitPush"
  /\ net.push # "pending"
  /\ responses' = Append(responses, afterPush(net.push))
  /\ pc' = "done"
  /\ UNCHANGED <<variant, reading, airInput, found, calc, topic, net, calls, body, wJson,
                 sent>>

NextHandler ==
  \/ Start
  \/ WeatherSettles
  \/ AirSettles
  \/ ResumeAfterFetch
  \/ WeatherBodySettles
  \/ AirBodySettles
  \/ ResumeAfterJson
  \/ PushSettles
  \/ ResumeAfterPush

SpecHandler == InitHandler /\ [][NextHandler]_vars

\* The handler under the scheduling the runtime gives it.  Every step is a
\* call completing (fetch and json() settle their promises) or the runtime
\* resuming the async function whose awaited promise has settled; the
\* invocation is not suspended for ever while such a step is possible.
FairHandler == WF_vars(NextHandler)

SpecHandlerFair == InitHandler /\ [][NextHandler]_vars /\ FairHandler

(***************************************************************************)
(* Claims about the verdict engine, checked under SpecVerdict.              *)
(***************************************************************************)
Present(v) == v.k = "num"

Severity(v) ==
  CASE v.icon = "safe" -> 0
    [] v.icon = "moderate" -> 1
    [] v.icon = "severe" -> 2
    [] OTHER -> -1

\* C1: whenever the AQI is present and >= 101 the verdict is "Indoor only"
\* (severe), whatever temperature, humidity and wind are, in the guarded and
\* in the unguarded variant.
C1_HighAqiIndoorOnly ==
  (pc = "classified" /\ Present(aqi) /\ aqi.n >= Units(101)) => verdict = IndoorOnly

\* C1 witness: AQI 120 with temperature 20, humidity 40 and wind 5 was
\* classified "Indoor only".
C1_Witness ==
  /\ pc = "classified"
  /\ aqi = Num(Units(120))
  /\ tempC = Num(Units(20))
  /\ rh = Num(Units(40))
  /\ windKmh = Num(Kmh(5))
  /\ verdict = IndoorOnly

\* The five-row table with the second row as stated: AQI in [51,100].
DecisionTableAsStated(t, h, w, a) ==
  IF Present(a) /\ a.n >= Units(101) THEN IndoorOnly
  ELSE IF Present(a) /\ a.n >= Units(51) /\ a.n <= Units(100)
       THEN (IF Present(t) /\ t.n >= Units(32) THEN IndoorOnly ELSE Caution)
  ELSE IF Present(t) /\ t.n >= Units(32) THEN IndoorOnly
  ELSE IF (Present(t) /\ t.n >= Units(28)) \/ (Present(h) /\ h.n >= Units(75)) THEN Caution
  ELSE SafeToRun

\* The table with the second row covering every AQI from 51 up to, not
\* including, 101.
DecisionTableAmended(t, h, w, a) ==
  IF Present(a) /\ a.n >= Units(101) THEN IndoorOnly
  ELSE IF Present(a) /\ a.n >= Units(51) /\ a.n < Units(101)
       THEN (IF Present(t) /\ t.n >= Units(32) THEN IndoorOnly ELSE Caution)
  ELSE IF Present(t) /\ t.n >= Units(32) THEN IndoorOnly
  ELSE IF (Present(t) /\ t.n >= Units(28)) \/ (Present(h) /\ h.n >= Units(75)) THEN Caution
  ELSE SafeToRun

\* C2 (as stated): the guarded verdictForAsthma returns exactly the verdict
\* of the five-row table whose second row is "AQI present and in [51,100]".
C2_TableAsStated ==
  (pc = "classified" /\ variant = "guarded")
    => verdict = DecisionTableAsStated(tempC, rh, windKmh, aqi)

\* C2 (amended): the guarded verdictForAsthma returns exactly the verdict of
\* the five-row table whose second row is "AQI present, >= 51 and < 101".
C2_TableAmended ==
  (pc = "classified" /\ variant = "guarded")
    => verdict = DecisionTableAmended(tempC, rh, windKmh, aqi)

\* C2 witness: temperature 30, humidity 50, wind 10, AQI 40 was classified
\* "Caution" by the guarded variant.
C2_Witness ==
  /\ pc = "classified"
  /\ variant = "guarded"
  /\ tempC = Num(Units(30))
  /\ rh = Num(Units(50))
  /\ windKmh = Num(Kmh(10))
  /\ aqi = Num(Units(40))
  /\ verdict = Caution

\* C3: replacing any subset of the four inputs by an absent value never
\* yields a stricter verdict than the one of the original reading, and the
\* reading with every input absent is "Safe to run"; in both variants.
C3_AbsentNeverStricter ==
  pc = "classified" =>
    /\ \A t \in {tempC} \cup Absent, h \in {rh} \cup Absent,
          w \in {windKmh} \cup Absent, a \in {aqi} \cup Absent :
          Severity(Classify(variant, t, h, w, a)) <= Severity(verdict)
    /\ ({tempC, rh, windKmh, aqi} \subseteq Absent => verdict = SafeToRun)

\* C3 witness: the unguarded variant classified a severe reading (AQI 120,
\* temperature 33) whose humidity is undefined, a reading that has inputs to
\* lose.
C3_Witness ==
  /\ pc = "classified"
  /\ variant = "unguarded"
  /\ aqi = Num(Units(120))
  /\ tempC = Num(Units(33))
  /\ rh = Undefined
  /\ verdict = IndoorOnly

(***************************************************************************)
(* Claims about the air-quality resolver, checked under SpecResolver.       *)
(***************************************************************************)
FindNearestVariants == {"findNearestAqi", "findNearestAqiCat", "findNearestAqiLoose"}

\* The series the variant resolves a value from, and the target's index in it.
ValueSeries ==
  IF variant = "pickNearest" THEN Series(aqJson, "pm2_5") ELSE Series(aqJson, "us_aqi")
TargetIndex == FindIndex(Series(aqJson, "time"), targetISO)

\* Section 3 of the specification: the value series is aligned with the
\* timestamps, so it has no position beyond them (it may be shorter).
Aligned == Len(ValueSeries) <= Len(Series(aqJson, "time"))

Usable(i) == i >= 0 /\ i < Len(ValueSeries) /\ Present(ValueSeries[i + 1])
UsableBelow == {i \in 0..(Len(ValueSeries) - 1) : i < TargetIndex /\ Usable(i)}
UsableAbove == {i \in 0..(Len(ValueSeries) - 1) : i > TargetIndex /\ Usable(i)}
NoUsable == UsableBelow = {} /\ UsableAbove = {} /\ ~ Usable(TargetIndex)

\* The position the fallback is specified to settle on; -1: none.
NearestUsable ==
  IF Usable(TargetIndex) THEN TargetIndex
  ELSE IF UsableBelow # {} THEN MaxOf(UsableBelow)
  ELSE IF UsableAbove # {} THEN MinOf(UsableAbove)
  ELSE -1

C5_NeverRaisesForMissingData ==
  (pc = "resolved" /\ variant # "pickNearest")
    => /\ ~ found.threw
       /\ NoUsable => /\ found.aqi \in Absent
                      /\ (variant \in FindNearestVariants => found.category = "Unknown")

\* C5 restricted to the three findNearestAqi: they return, and return
\* {absent, "Unknown"} when nothing is usable.
C5_FindNearestAqiReturns ==
  (pc = "resolved" /\ variant \in FindNearestVariants)
    => /\ ~ found.threw
       /\ NoUsable => (found.aqi = Null /\ found.category = "Unknown")

\* The category of a number by the fixed thresholds.
ThresholdCategory(v) ==
  CASE ~ Present(v) -> "Unknown"
    [] Present(v) /\ v.n <= Units(50) -> "Good"
    [] Present(v) /\ v.n > Units(50) /\ v.n <= Units(100) -> "Moderate"
    [] Present(v) /\ v.n > Units(100) /\ v.n <= Units(150) -> "Unhealthy for Sensitive Groups"
    [] Present(v) /\ v.n > Units(150) /\ v.n <= Units(200) -> "Unhealthy"
    [] Present(v) /\ v.n > Units(200) /\ v.n <= Units(300) -> "Very Unhealthy"
    [] Present(v) /\ v.n > Units(300) -> "Hazardous"

\* The label that accompanies the value at the resolved index ("": none).
ResolvedLabel ==
  IF Labelled(variant) THEN LabelAt(Series(aqJson, "epa_health_concern"), NearestUsable)
  ELSE ""

\* C8: the returned category is the label at the resolved index when there
\* is one, else the category of the resolved number by the thresholds, and
\* "Unknown" when nothing was resolved; 50 is Good, 51 Moderate, 300 Very
\* Unhealthy and 301 Hazardous.
C8_CategoryMapping ==
  (pc = "resolved" /\ variant \in FindNearestVariants /\ Aligned)
    => /\ found.category =
            (IF NearestUsable >= 0 /\ ResolvedLabel # "" THEN ResolvedLabel
             ELSE ThresholdCategory(found.aqi))
       /\ (ResolvedLabel = "" /\ found.aqi = Num(Units(50)) => found.category = "Good")
       /\ (ResolvedLabel = "" /\ found.aqi = Num(Units(51)) => found.category = "Moderate")
       /\ (ResolvedLabel = "" /\ found.aqi = Num(Units(300)) => found.category = "Very Unhealthy")
       /\ (ResolvedLabel = "" /\ found.aqi = Num(Units(301)) => found.category = "Hazardous")

\* C8 witness: the labelled resolver fell back to an earlier hour whose AQI
\* 40 carries the label "Unhealthy", and returned that label.
C8_Witness ==
  /\ pc = "resolved"
  /\ variant = "findNearestAqiCat"
  /\ Series(aqJson, "us_aqi") = <<Num(Units(40)), Null>>
  /\ Series(aqJson, "epa_health_concern") = <<"Unhealthy", "">>
  /\ TargetIndex = 1
  /\ found.aqi = Num(Units(40))
  /\ found.category = "Unhealthy"

(***************************************************************************)
(* Claims about usAqiFromConcentration, checked under SpecCalc.             *)
(***************************************************************************)
TableOf(pollutant) == IF pollutant = "pm10" THEN PM10 ELSE PM25

\* C6: usAqiFromConcentration is monotonic non-decreasing: of two finite
\* non-negative concentrations c1 <= c2 of one pollutant, taken on a grid
\* finer than the tables' step, the first never gets the greater index.
C6_Monotonic ==
  (pc = "computed" /\ Present(calc.c1) /\ Present(calc.c2) /\ calc.c1.n <= calc.c2.n)
    => calc.i1.n <= calc.i2.n

\* C6 restricted to pairs of concentrations that both lie in listed ranges.
C6_MonotonicInsideRanges ==
  (/\ pc = "computed" /\ Present(calc.c1) /\ Present(calc.c2)
   /\ RowOf(TableOf(calc.pollutant), calc.c1.n) > 0
   /\ RowOf(TableOf(calc.pollutant), calc.c2.n) > 0)
    => calc.i1.n <= calc.i2.n

\* k is (Ih - Il)/(Ch - Cl) * (c - Cl) + Il rounded to the nearest integer,
\* halves upward: k - 1/2 <= I < k + 1/2, with the row in tenths.
IsRounded(k, row, c) ==
  LET den == (row[2] - row[1]) * Res
      num == (row[4] - row[3]) * (c - row[1] * Res) + row[3] * den
  IN 2 * den * k - den <= 2 * num /\ 2 * num < 2 * den * k + den

\* What C7 says of one call: concentration c of pollutant q gave index i.
InterpolatedOrSaturated(q, c, i) ==
  /\ ~ Present(c) => i = Null
  /\ Present(c) =>
       /\ \A r \in 1..Len(TableOf(q)) :
            LET row == TableOf(q)[r] IN
              (c.n >= row[1] * Res /\ c.n <= row[2] * Res) =>
                 /\ Present(i) /\ i.n % Res = 0
                 /\ IsRounded(i.n \div Res, row, c.n)
                 /\ (c.n = row[1] * Res => i = Num(Units(row[3])))
                 /\ (c.n = row[2] * Res => i = Num(Units(row[4])))
       /\ (c.n > TopOf(q) * Res => i = Num(Units(500)))
       /\ (q = "pm25" /\ c.n = 120 * Res => i = Num(Units(50)))
       /\ (q = "pm25" /\ c.n = 121 * Res => i = Num(Units(51)))

\* C7: a concentration in a breakpoint range gets the rounded linear
\* interpolation of that range, so a range's bounds get I_low and I_high
\* (PM2.5 12.0 -> 50, 12.1 -> 51); a concentration above the top breakpoint
\* gets 500; an absent or non-finite one gets absent.
C7_Interpolation ==
  pc = "computed" =>
    /\ InterpolatedOrSaturated(calc.pollutant, calc.c1, calc.i1)
    /\ InterpolatedOrSaturated(calc.pollutant, calc.c2, calc.i2)

\* C7 witness: PM10 at 104.5 ug/m3, inside [55,154] -> [51,100], was given
\* 76, the rounding of 75.5.
C7_Witness ==
  /\ pc = "computed"
  /\ calc.pollutant = "pm10"
  /\ calc.c1 = Num(1045 * Res)
  /\ calc.i1 = Num(Units(76))

(***************************************************************************)
(* Claims about the handler, checked under SpecHandler.                     *)
(***************************************************************************)
UpstreamNotOk == net.weather = "notOk" \/ net.air = "notOk"

\* C9: in every run in which the weather or the air-quality fetch completed
\* with a non-success response, no notification is ever pushed and the
\* invocation ends with a failure result.
C9_UpstreamErrorFatal ==
  UpstreamNotOk => (sent = <<>> /\ (pc = "done" => responses = <<Failure>>))

\* C9 restricted to the variants that check the responses' ok.
C9_FatalWhereChecked ==
  (UpstreamNotOk /\ ChecksOk(variant))
    => (sent = <<>> /\ (pc = "done" => responses = <<Failure>>))

\* C10: the success result (200, ok: true) is returned only after the
\* notification sender acknowledged the push with success, and a push
\* acknowledged with non-success ends the invocation with the failure
\* result (500, ok: false).
C10_DeliveryErrorSurfaced ==
  /\ (\E i \in 1..Len(responses) : responses[i] = Success) => net.push = "ok"
  /\ (net.push = "notOk" /\ pc = "done") => responses = <<Failure>>

\* C10 witness: the deployed handler pushed its line, the sender answered
\* non-success, and the handler returned the failure result.
C10_Witness ==
  /\ variant = "deployed"
  /\ Len(sent) = 1
  /\ net.push = "notOk"
  /\ pc = "done"
  /\ responses = <<Failure>>

\* C11: in every run in which NTFY_TOPIC is missing, no weather or
\* air-quality fetch is ever issued, no notification is pushed, nothing is
\* attempted twice, and the invocation ends with the failure result.
C11_ConfigErrorFatal ==
  ~ topic =>
    /\ \A c \in Calls : calls[c] = 0
    /\ sent = <<>>
    /\ (pc = "done" => responses = <<Failure>>)

\* C11 restricted to the variants that read the topic before fetching.
C11_FatalWhereTopicFirst ==
  (~ topic /\ TopicFirst(variant)) =>
    /\ \A c \in Calls : calls[c] = 0
    /\ sent = <<>>
    /\ (pc = "done" => responses = <<Failure>>)

\* The part of C11 every variant keeps: without a topic nothing is pushed and
\* the only result is the failure result.
C11_NeverPushedWithoutTopic ==
  ~ topic =>
    /\ calls.push = 0
    /\ sent = <<>>
    /\ (pc = "done" => responses = <<Failure>>)

(***************************************************************************)
(* The wind, checked under SpecVerdict.                                     *)
(***************************************************************************)
\* C12: wind is a no-op input of verdictForAsthma: for the temperature,
\* humidity and AQI of any reading, the verdict computed with any other wind
\* value, a number or absent, equals the verdict computed with its own.
C12_WindIsNoOp ==
  pc = "classified" =>
    \A w \in WindVals : Classify(variant, tempC, rh, w, aqi) = verdict

\* C12 witness: a reading that nothing but the wind could hold back (20
\* degrees, 40 % humidity, AQI 40) was classified "Safe to run" in a wind
\* of 50 km/h.
C12_Witness ==
  /\ pc = "classified"
  /\ variant = "guarded"
  /\ tempC = Num(Units(20))
  /\ rh = Num(Units(40))
  /\ aqi = Num(Units(40))
  /\ windKmh = Num(Kmh(50))
  /\ verdict = SafeToRun

(***************************************************************************)
(* Termination of the handler, checked under SpecHandlerFair.               *)
(***************************************************************************)
\* The handler has returned: exactly one result, success or failure.
Returned == pc = "done" /\ (responses = <<Success>> \/ responses = <<Failure>>)

\* C13: every invocation, whatever the outcomes and the completion order of
\* its external calls, terminates with exactly one result, success or
\* failure; until then it has returned nothing, each of the weather fetch,
\* the air-quality fetch and the push is attempted at most once, the push
\* carries one line, and no result is replaced or added after the return.
C13_TerminatesWithOneResult ==
  /\ <>[]Returned
  /\ [](pc # "done" => responses = <<>>)
  /\ [](pc = "done" => Returned)
  /\ [](\A c \in Calls : calls[c] <= 1)
  /\ [](Len(sent) = calls.push)

\* The handler does not stay behind a settled Promise.all: once one fetch is
\* rejected it goes on, although the other fetch is still pending.
C13_NoBlockingOnRejection ==
  (pc = "awaitFetch" /\ (net.weather = "rejected" \/ net.air = "rejected"))
    ~> Returned

\* C13 witness: the weather fetch was rejected while the air-quality fetch
\* had not completed; the handler returned its single failure result, each
\* fetch attempted once and nothing pushed.
C13_Witness ==
  /\ pc = "done"
  /\ net.weather = "rejected"
  /\ net.air = "pending"
  /\ calls = [weather |-> 1, air |-> 1, push |-> 0]
  /\ responses = <<Failure>>

\* A full run: the three calls attempted once each, the push acknowledged,
\* the single success result.
C13_FullRun ==
  /\ pc = "done"
  /\ calls = [weather |-> 1, air |-> 1, push |-> 1]
  /\ net.push = "ok"
  /\ responses = <<Success>>

====
